---- MODULE Spec2Model ----
(***************************************************************************)
(* The message composer of react-composition-pattern: the zustand store    *)
(* created by createComposerStore (composerStore.js), and the submit action *)
(* that ComposerProvider (ComposerContext.jsx) binds into it.               *)
(*                                                                         *)
(* JavaScript runs one synchronous segment at a time.  Every action below  *)
(* is one such segment: a call of a store action, the synchronous prefix   *)
(* of wrappedSubmit up to its await, or its continuation after the await.  *)
(* The partial states a segment passes to zustand's set() are recorded, in *)
(* order, in the variable writes.                                          *)
(***************************************************************************)
EXTENDS Integers, Sequences, FiniteSets, Bags, TLC

VARIABLES
    store,      \* the state object of the zustand store (store.getState())
    onSubmit,   \* the onSubmit prop of the provider's latest render
    pending,    \* bag of wrappedSubmit calls suspended at `await onSubmit(...)`
    last,       \* history: the segment that ran last and what it did
    writes,     \* history: the partial states the last segment passed to set()
    addLog,     \* history: the addAttachment calls since the list was last empty
    storeRef,   \* the provider's useRef: the store instance it holds, and how
                \* many instances its renders have created
    initialValue, \* the initialValue prop of the provider's latest render
    sibling,    \* a second ComposerProvider: its store's state and its
                \* suspended wrappedSubmit calls
    local       \* the same session held by the useState provider

\* the variables that the actions on the first provider's store leave alone
others == <<storeRef, initialValue, sibling, local>>

vars == <<store, onSubmit, pending, last, writes, addLog,
          storeRef, initialValue, sibling, local>>

----------------------------------------------------------------------------
(* Bounds and input domains *)

\* longest attachment list explored by the store-only specification
MaxAttachments == 3
\* longest attachment list explored while submissions are in flight
MaxSubmitAttachments == 1
\* most handler calls in flight at the same time, where the data is explored
MaxPending == 1
\* most handler calls in flight at the same time, where re-entrant submit is
MaxOverlap == 2

Contents == {"", "hi"}

\* attachment objects {id, name}; two of them share an id
File1 == [id |-> 1, name |-> "a.pdf"]
File1b == [id |-> 1, name |-> "b.pdf"]
File2 == [id |-> 2, name |-> "c.pdf"]
File3 == [id |-> 3, name |-> "d.pdf"]
Attachments == {File1, File1b, File2, File3}
AttachmentIds == {1, 2, 3}

MetaKeys == {"threadId", "mode"}
MetaValues == {"t1", "t2"}

\* identities of the functions passed as the onSubmit prop
Handlers == {"h1", "h2"}
FirstHandler == "h1"

\* the additionalData arguments of submit: none, a new key, a key of the snapshot
NoExtra == [k \in {} |-> ""]
ExtraChannel == [channel |-> "general"]
ExtraContent == [content |-> "override"]
Extras == {NoExtra, ExtraChannel, ExtraContent}

\* the onSubmit prop of a provider that is given none
NoHandler == "undefined"

\* what a call of the external handler can do
Behaviours == {"throws", "returns"}

\* what the call expression onSubmit(...) can do: with no handler it throws a
\* TypeError before anything is called
BehavioursOf(handler) ==
    IF handler = NoHandler THEN {"notAFunction"} ELSE Behaviours
Outcomes == {"resolved", "rejected"}

----------------------------------------------------------------------------
(* composerStore.js *)

EmptyMetadata == [k \in {} |-> ""]

\* the submit placeholder of a fresh store
Placeholder == "placeholder"

\* zustand's set(partial): shallow merge of partial into the state, and one
\* notification of the subscribers.  h is [state, writes].
setState(h, partial) ==
    [state |-> partial @@ h.state, writes |-> Append(h.writes, partial)]

\* value is the initialValue argument
createComposerStore(value) ==
    [content |-> value,
     attachments |-> <<>>,
     metadata |-> EmptyMetadata,
     isSubmitting |-> FALSE,
     submit |-> Placeholder]

\* a placeholder that raises the flag before it warns
placeholderSubmitSetsFlag(h) ==
    [h |-> setState(h, [isSubmitting |-> TRUE]),
     invoked |-> <<>>,
     promise |-> "fulfilled"]

\* lines 35-38: the submit of a fresh store warns and does nothing else
placeholderSubmit(h) ==
    [h |-> h, invoked |-> <<>>, promise |-> "fulfilled"]

\* updateContent whose write takes effect after the calling segment, as a
\* state setter of React does
updateContentDeferred(h, value) ==
    [state |-> h.state, writes |-> Append(h.writes, [content |-> value])]

\* updateContent that also clears the flag
updateContentClearsFlag(h, value) ==
    setState(h, [content |-> value, isSubmitting |-> FALSE])

updateContent(h, value) == setState(h, [content |-> value])

\* addAttachment that puts the new entry first: [attachment, ...state.attachments]
addAttachmentPrepend(h, attachment) ==
    setState(h, [attachments |-> <<attachment>> \o h.state.attachments])

\* addAttachment that skips an attachment whose id is already in the list
addAttachmentDedup(h, attachment) ==
    setState(h, [attachments |->
        IF \E i \in 1..Len(h.state.attachments) :
                h.state.attachments[i].id = attachment.id
        THEN h.state.attachments
        ELSE Append(h.state.attachments, attachment)])

addAttachment(h, attachment) ==
    setState(h, [attachments |-> Append(h.state.attachments, attachment)])

\* s without its first entry whose id is id
RECURSIVE WithoutFirst(_, _)
WithoutFirst(s, id) ==
    IF s = <<>> THEN <<>>
    ELSE IF Head(s).id = id THEN Tail(s)
    ELSE <<Head(s)>> \o WithoutFirst(Tail(s), id)

\* s without every entry whose id is id
RECURSIVE WithoutId(_, _)
WithoutId(s, id) ==
    IF s = <<>> THEN <<>>
    ELSE IF Head(s).id = id THEN WithoutId(Tail(s), id)
    ELSE <<Head(s)>> \o WithoutId(Tail(s), id)

\* removeAttachment that splices out the first match only (findIndex + splice)
removeAttachmentFirstOnly(h, attachmentId) ==
    setState(h, [attachments |-> WithoutFirst(h.state.attachments, attachmentId)])

\* removeAttachment by splice(findIndex(...), 1): an index of -1 removes the
\* last entry
removeAttachmentSplice(h, attachmentId) ==
    LET s == h.state.attachments
        hits == {i \in 1..Len(s) : s[i].id = attachmentId}
        at == IF hits = {} THEN Len(s) ELSE CHOOSE i \in hits : \A j \in hits : i <= j
    IN  setState(h, [attachments |->
            [i \in 1..(Len(s) - (IF s = <<>> THEN 0 ELSE 1)) |->
                IF i < at THEN s[i] ELSE s[i + 1]]])

removeAttachment(h, attachmentId) ==
    setState(h, [attachments |->
        SelectSeq(h.state.attachments, LAMBDA a : a.id # attachmentId)])

\* updateMetadata without the spread of state.metadata: { [key]: value }
updateMetadataReplace(h, key, value) ==
    setState(h, [metadata |-> [k \in {key} |-> value]])

updateMetadata(h, key, value) ==
    setState(h, [metadata |->
        [k \in DOMAIN h.state.metadata \cup {key} |->
            IF k = key THEN value ELSE h.state.metadata[k]]])

\* reset that also clears the flag
resetWithFlag(h) ==
    setState(h, [content |-> "", attachments |-> <<>>, metadata |-> EmptyMetadata,
                 isSubmitting |-> FALSE])

reset(h) ==
    setState(h, [content |-> "", attachments |-> <<>>, metadata |-> EmptyMetadata])

----------------------------------------------------------------------------
(* ComposerContext.jsx: wrappedSubmit *)

\* payloadOf without the spread of additionalData
payloadOfSnapshotOnly(state, additionalData) ==
    [content |-> state.content,
     attachments |-> state.attachments,
     metadata |-> state.metadata]

\* { content, attachments, metadata, ...additionalData }
payloadOf(state, additionalData) ==
    additionalData @@ [content |-> state.content,
                       attachments |-> state.attachments,
                       metadata |-> state.metadata]

\* wrappedSubmitCall behind a guard: if (store.getState().isSubmitting) return
wrappedSubmitCallGuarded(h, additionalData, behaviour) ==
    IF h.state.isSubmitting
    THEN [h |-> h, invoked |-> <<>>, promise |-> "fulfilled"]
    ELSE LET h1 == setState(h, [isSubmitting |-> TRUE])
             payload == payloadOf(h1.state, additionalData)
         IN  IF behaviour = "throws"
             THEN [h |-> setState(h1, [isSubmitting |-> FALSE]),
                   invoked |-> <<payload>>,
                   promise |-> "fulfilled"]
             ELSE [h |-> h1,
                   invoked |-> <<payload>>,
                   promise |-> "pending"]

\* wrappedSubmitCall that validates: if (!content) return
wrappedSubmitCallValidated(h, additionalData, behaviour) ==
    IF h.state.content = ""
    THEN [h |-> h, invoked |-> <<>>, promise |-> "fulfilled"]
    ELSE LET h1 == setState(h, [isSubmitting |-> TRUE])
             payload == payloadOf(h1.state, additionalData)
         IN  IF behaviour = "throws"
             THEN [h |-> setState(h1, [isSubmitting |-> FALSE]),
                   invoked |-> <<payload>>,
                   promise |-> "fulfilled"]
             ELSE [h |-> h1,
                   invoked |-> <<payload>>,
                   promise |-> "pending"]

\* wrappedSubmitCall without try / catch / finally
wrappedSubmitCallUncaught(h, additionalData, behaviour) ==
    LET h1 == setState(h, [isSubmitting |-> TRUE])
        payload == payloadOf(h1.state, additionalData)
    IN  IF behaviour = "notAFunction"
        THEN [h |-> h1, invoked |-> <<>>, promise |-> "rejected"]
        ELSE IF behaviour = "throws"
        THEN [h |-> h1, invoked |-> <<payload>>, promise |-> "rejected"]
        ELSE [h |-> h1, invoked |-> <<payload>>, promise |-> "pending"]

\* wrappedSubmit from its entry to the await: set the flag, take the snapshot,
\* call onSubmit.  A handler that throws before returning a promise sends the
\* same segment through catch and finally, and so does the TypeError of
\* calling an onSubmit that is undefined.
wrappedSubmitCall(h, additionalData, behaviour) ==
    LET h1 == setState(h, [isSubmitting |-> TRUE])
        payload == payloadOf(h1.state, additionalData)
    IN  IF behaviour = "notAFunction"
        THEN [h |-> setState(h1, [isSubmitting |-> FALSE]),
              invoked |-> <<>>,
              promise |-> "fulfilled"]
        ELSE IF behaviour = "throws"
        THEN [h |-> setState(h1, [isSubmitting |-> FALSE]),
              invoked |-> <<payload>>,
              promise |-> "fulfilled"]
        ELSE [h |-> h1,
              invoked |-> <<payload>>,
              promise |-> "pending"]

\* wrappedSubmitResume without the reset() of line 40
wrappedSubmitResumeNoReset(h, outcome) ==
    [h |-> setState(h, [isSubmitting |-> FALSE]),
     promise |-> "fulfilled"]

\* wrappedSubmitResume with reset() moved into the finally block
wrappedSubmitResumeAlwaysReset(h, outcome) ==
    [h |-> setState(reset(h), [isSubmitting |-> FALSE]),
     promise |-> "fulfilled"]

\* wrappedSubmitResume with a catch block that throws the error again
wrappedSubmitResumeRethrow(h, outcome) ==
    LET h1 == IF outcome = "resolved" THEN reset(h) ELSE h
    IN  [h |-> setState(h1, [isSubmitting |-> FALSE]),
         promise |-> IF outcome = "rejected" THEN "rejected" ELSE "fulfilled"]

\* wrappedSubmitResume that clears the flag before it resets
wrappedSubmitResumeFlagFirst(h, outcome) ==
    LET h1 == setState(h, [isSubmitting |-> FALSE])
    IN  [h |-> IF outcome = "resolved" THEN reset(h1) ELSE h1,
         promise |-> "fulfilled"]

\* wrappedSubmitResume that clears the flag after success only (no finally)
wrappedSubmitResumeNoFinally(h, outcome) ==
    IF outcome = "resolved"
    THEN [h |-> setState(reset(h), [isSubmitting |-> FALSE]),
          promise |-> "fulfilled"]
    ELSE [h |-> h, promise |-> "fulfilled"]

\* wrappedSubmitResume that keeps the text typed while the handler ran: on
\* success it clears attachments and metadata only
wrappedSubmitResumeKeepsContent(h, outcome) ==
    LET h1 == IF outcome = "resolved"
              THEN setState(h, [attachments |-> <<>>, metadata |-> EmptyMetadata])
              ELSE h
    IN  [h |-> setState(h1, [isSubmitting |-> FALSE]),
         promise |-> "fulfilled"]

\* wrappedSubmit after the await: reset() when the handler resolved, the catch
\* block when it rejected, and the finally block in both cases.
wrappedSubmitResume(h, outcome) ==
    LET h1 == IF outcome = "resolved" THEN reset(h) ELSE h
    IN  [h |-> setState(h1, [isSubmitting |-> FALSE]),
         promise |-> "fulfilled"]

----------------------------------------------------------------------------
(* ComposerContextValue: the context and its accessor *)

\* the providers of a tree with two composers
Main == "main"
Reply == "reply"
Providers == {Main, Reply}

\* createContext(null): what useContext returns outside every provider
NullContext == [kind |-> "null"]

\* <ComposerContext.Provider value={store}>: the store instance of a provider
StoreContext(provider, instance) ==
    [kind |-> "store", provider |-> provider, instance |-> instance]

\* Where a consumer is rendered: the providers that enclose it, outermost
\* first.  <<>> is a consumer outside every provider.
Paths == {<<>>, <<Main>>, <<Reply>>, <<Main, Reply>>}

\* useContext that looks up the outermost provider
useContextOutermost(path, values) ==
    IF path = <<>> THEN NullContext ELSE values[path[1]]

\* React.useContext(ComposerContext): the value of the nearest enclosing
\* provider, or the default value of the context
useContext(path, values) ==
    IF path = <<>> THEN NullContext ELSE values[path[Len(path)]]

ErrorOutsideProvider == "useComposer must be used within ComposerProvider"

\* useComposer without the check of the context
useComposerUnchecked(context) == [threw |-> FALSE, value |-> context]

\* useComposer: throws when the context is null, returns it otherwise
useComposer(context) ==
    IF context = NullContext
    THEN [threw |-> TRUE, message |-> ErrorOutsideProvider]
    ELSE [threw |-> FALSE, value |-> context]

----------------------------------------------------------------------------
(* ComposerContext.jsx: the render of ComposerProvider *)

\* storeRef.current before the first render: useRef(null)
NoStore == 0

\* a render that creates a store every time: storeRef.current =
\* createComposerStore(initialValue), without the guard
renderProviderFresh(ref, state, value) ==
    [ref |-> [current |-> ref.created + 1, created |-> ref.created + 1],
     state |-> createComposerStore(value)]

\* a render that copies a changed initialValue prop into the store
renderProviderSync(ref, state, value) ==
    IF ref.current = NoStore
    THEN [ref |-> [current |-> ref.created + 1, created |-> ref.created + 1],
          state |-> createComposerStore(value)]
    ELSE [ref |-> ref, state |-> [state EXCEPT !.content = value]]

\* lines 16-21: the store is created when storeRef.current is empty, and
\* only then.  ref is [current, created]; state is the state of the store
\* in ref.current.
renderProvider(ref, state, value) ==
    IF ref.current = NoStore
    THEN [ref |-> [current |-> ref.created + 1, created |-> ref.created + 1],
          state |-> createComposerStore(value)]
    ELSE [ref |-> ref, state |-> state]

----------------------------------------------------------------------------
(* ComposerProvider with useState: the provider that keeps the session in
   its own component state and passes a snapshot object down *)

\* the state after the first render: useStateFn(initialValue), [], {}, false
useStateProvider(value) ==
    [content |-> value,
     attachments |-> <<>>,
     metadata |-> EmptyMetadata,
     isSubmitting |-> FALSE]

localUpdateContent(state, value) == [state EXCEPT !.content = value]

localAddAttachment(state, attachment) ==
    [state EXCEPT !.attachments = Append(@, attachment)]

localRemoveAttachment(state, attachmentId) ==
    [state EXCEPT !.attachments = SelectSeq(@, LAMBDA a : a.id # attachmentId)]

localUpdateMetadata(state, key, value) ==
    [state EXCEPT !.metadata =
        [k \in DOMAIN state.metadata \cup {key} |->
            IF k = key THEN value ELSE state.metadata[k]]]

localReset(state) ==
    [state EXCEPT !.content = "", !.attachments = <<>>, !.metadata = EmptyMetadata]

\* submit from its entry to the await.  The payload is built from rendered:
\* the content, attachments and metadata of the render that created the
\* callback, which is the latest render when an event handler calls it.
\* state is the state with the updates that the caller has queued so far.
localSubmitCall(state, rendered, additionalData, behaviour) ==
    LET payload == payloadOf(rendered, additionalData)
    IN  IF behaviour = "throws"
        THEN [state |-> [state EXCEPT !.isSubmitting = FALSE],
              invoked |-> <<payload>>,
              promise |-> "fulfilled"]
        ELSE [state |-> [state EXCEPT !.isSubmitting = TRUE],
              invoked |-> <<payload>>,
              promise |-> "pending"]

\* submit after the await
localSubmitResume(state, outcome) ==
    LET s1 == IF outcome = "resolved" THEN localReset(state) ELSE state
    IN  [s1 EXCEPT !.isSubmitting = FALSE]

\* the names a consumer destructures from useComposer(): four state fields
\* and six actions
StateKeys == {"content", "attachments", "metadata", "isSubmitting"}
ActionKeys == {"updateContent", "addAttachment", "removeAttachment",
               "updateMetadata", "submit", "reset"}
ConsumerKeys == StateKeys \cup ActionKeys

\* <ComposerContext.Provider value={value}>: the snapshot object of a render
LocalContext(state) ==
    [kind |-> "snapshot",
     value |-> [k \in ConsumerKeys |->
                   IF k \in StateKeys THEN [is |-> "state", of |-> state[k]]
                   ELSE [is |-> "function"]]]

\* the methods of the store object that the provider calls
StoreApi == {"getState", "setState"}

\* the own properties of the object that a context value is
Properties(context) ==
    IF context.kind = "store"
    THEN [k \in StoreApi |-> [is |-> "function"]]
    ELSE context.value

\* object[key] in JavaScript: undefined for a property the object lacks
Read(object, key) ==
    IF key \in DOMAIN object
    THEN [defined |-> TRUE, value |-> object[key]]
    ELSE [defined |-> FALSE]

\* React renders a consumer of the context again when the value of its
\* provider is another object than at the previous render
contextChanged(before, after) == before # after

----------------------------------------------------------------------------
(* State machine *)

Handle == [state |-> store, writes |-> <<>>]

\* the content, attachments and metadata of a state
Fields(state) ==
    [content |-> state.content,
     attachments |-> state.attachments,
     metadata |-> state.metadata]

\* the context values that the mounted providers pass down
ContextValues ==
    [p \in Providers |->
        IF p = Main THEN StoreContext(Main, storeRef.current)
        ELSE StoreContext(Reply, sibling.ref.current)]

\* The state after the first render of the providers, before their effects,
\* whatever the onSubmit prop.
Mounted ==
    /\ \E value \in Contents :
        LET r == renderProvider([current |-> NoStore, created |-> 0], <<>>, value)
        IN  /\ storeRef = r.ref
            /\ store = r.state
            /\ initialValue = value
    /\ LET r == renderProvider([current |-> NoStore, created |-> 0], <<>>, "")
       IN  sibling = [ref |-> r.ref, state |-> r.state, pending |-> EmptyBag]
    /\ local = [state |-> useStateProvider(initialValue), pending |-> EmptyBag]
    /\ pending = EmptyBag
    /\ last = [op |-> "create"]
    /\ writes = <<>>
    /\ addLog = [calls |-> <<>>, pure |-> TRUE]

Init == Mounted /\ onSubmit = FirstHandler

\* the provider is mounted without an onSubmit prop
InitNoHandler == Mounted /\ onSubmit = NoHandler

UpdateContent ==
    \E value \in Contents :
        LET h == updateContent(Handle, value)
        IN  /\ store' = h.state
            /\ writes' = h.writes
            /\ last' = [op |-> "updateContent", arg |-> value]
            /\ UNCHANGED <<others, onSubmit, pending, addLog>>

AddAttachment(items, maxLen) ==
    /\ Len(store.attachments) < maxLen
    /\ \E attachment \in items :
        LET h == addAttachment(Handle, attachment)
        IN  /\ store' = h.state
            /\ writes' = h.writes
            /\ last' = [op |-> "addAttachment", arg |-> attachment,
                        before |-> store.attachments]
            /\ addLog' = [addLog EXCEPT !.calls = Append(@, attachment)]
            /\ UNCHANGED <<others, onSubmit, pending>>

RemoveAttachment ==
    \E attachmentId \in AttachmentIds :
        LET h == removeAttachment(Handle, attachmentId)
        IN  /\ store' = h.state
            /\ writes' = h.writes
            /\ last' = [op |-> "removeAttachment", arg |-> attachmentId,
                        before |-> store.attachments]
            /\ addLog' = [calls |-> <<>>, pure |-> h.state.attachments = <<>>]
            /\ UNCHANGED <<others, onSubmit, pending>>

UpdateMetadata(keys, values) ==
    \E key \in keys, value \in values :
        LET h == updateMetadata(Handle, key, value)
        IN  /\ store' = h.state
            /\ writes' = h.writes
            /\ last' = [op |-> "updateMetadata", arg |-> <<key, value>>,
                        before |-> store.metadata,
                        prev |-> IF last.op = "updateMetadata"
                                 THEN [op |-> last.op, arg |-> last.arg,
                                       before |-> last.before]
                                 ELSE [op |-> last.op]]
            /\ UNCHANGED <<others, onSubmit, pending, addLog>>

Reset ==
    LET h == reset(Handle)
    IN  /\ store' = h.state
        /\ writes' = h.writes
        /\ last' = [op |-> "reset", fields |-> Fields(store),
                    busy |-> store.isSubmitting]
        /\ addLog' = [calls |-> <<>>, pure |-> TRUE]
        /\ UNCHANGED <<others, onSubmit, pending>>

\* ComposerProvider renders again with other props: another onSubmit,
\* another initialValue, or both.  React has run the effect of the previous
\* render before it renders again.
Rerender ==
    /\ store.submit = onSubmit
    /\ \E handler \in Handlers, value \in Contents :
        LET r == renderProvider(storeRef, store, value)
        IN  /\ <<handler, value>> # <<onSubmit, initialValue>>
            /\ onSubmit' = handler
            /\ initialValue' = value
            /\ storeRef' = r.ref
            /\ store' = r.state
            /\ last' = [op |-> "render",
                        was |-> [onSubmit |-> onSubmit,
                                 initialValue |-> initialValue],
                        value |-> StoreContext(Main, r.ref.current)]
    /\ writes' = <<>>
    /\ UNCHANGED <<pending, addLog, sibling, local>>

\* a component rendered at path calls useComposer()
UseComposer ==
    /\ \E path \in Paths :
        last' = [op |-> "useComposer",
                 path |-> path,
                 result |-> useComposer(useContext(path, ContextValues))]
    /\ writes' = <<>>
    /\ UNCHANGED <<others, store, onSubmit, pending, addLog>>

\* the provider's effect: store.setState({ submit: wrappedSubmit })
Effect ==
    /\ store.submit # onSubmit
    /\ LET h == setState(Handle, [submit |-> onSubmit])
       IN  /\ store' = h.state
           /\ writes' = h.writes
    /\ last' = [op |-> "effect"]
    /\ UNCHANGED <<others, onSubmit, pending, addLog>>

\* a consumer calls the store's submit before the effect has bound it
SubmitPlaceholder ==
    /\ store.submit = Placeholder
    /\ LET r == placeholderSubmit(Handle)
       IN  /\ store' = r.h.state
           /\ writes' = r.h.writes
           /\ last' = [op |-> "submit", outcome |-> "placeholder",
                       invoked |-> r.invoked, promise |-> r.promise]
    /\ UNCHANGED <<others, onSubmit, pending, addLog>>

\* a consumer calls the store's submit, which is wrappedSubmit
Submit(extras, maxPending) ==
    /\ store.submit # Placeholder
    /\ BagCardinality(pending) < maxPending
    /\ \E additionalData \in extras, behaviour \in BehavioursOf(store.submit) :
        LET r == wrappedSubmitCall(Handle, additionalData, behaviour)
            call == [pre |-> Fields(store),
                     extra |-> additionalData,
                     invoked |-> r.invoked]
        IN  /\ store' = r.h.state
            /\ writes' = r.h.writes
            /\ pending' = IF r.promise = "pending"
                          THEN pending (+) SetToBag({call})
                          ELSE pending
            /\ last' = [op |-> "submit",
                        outcome |-> IF behaviour = "returns" THEN "awaiting" ELSE "threw",
                        handler |-> store.submit,
                        busy |-> store.isSubmitting,
                        call |-> call,
                        invoked |-> r.invoked,
                        promise |-> r.promise]
    /\ UNCHANGED <<others, onSubmit, addLog>>

\* the handler's promise settles and the suspended wrappedSubmit continues
SettleCall(call, outcome) ==
    /\ BagIn(call, pending)
    /\ LET r == wrappedSubmitResume(Handle, outcome)
       IN  /\ store' = r.h.state
           /\ writes' = r.h.writes
           /\ last' = [op |-> "settle",
                       outcome |-> outcome,
                       call |-> call,
                       mutated |-> Fields(store) # call.pre,
                       promise |-> r.promise]
    /\ pending' = pending (-) SetToBag({call})
    /\ addLog' = IF outcome = "resolved"
                 THEN [calls |-> <<>>, pure |-> TRUE]
                 ELSE addLog
    /\ UNCHANGED <<others, onSubmit>>

Settle ==
    \E call \in BagToSet(pending), outcome \in Outcomes : SettleCall(call, outcome)

\* the attachment and metadata inputs used while submissions are explored
SubmitFiles == {File1}
SubmitKeys == {"threadId"}
SubmitValues == {"t1"}

\* One provider whose onSubmit prop never changes; at most MaxPending calls of
\* the handler in flight.
Next ==
    \/ UpdateContent
    \/ AddAttachment(SubmitFiles, MaxSubmitAttachments)
    \/ RemoveAttachment
    \/ UpdateMetadata(SubmitKeys, SubmitValues)
    \/ Reset
    \/ Effect
    \/ SubmitPlaceholder
    \/ Submit(Extras, MaxPending)
    \/ Settle

Spec == Init /\ [][Next]_vars

\* The store's own actions alone, over longer lists and more metadata.
NextStore ==
    \/ UpdateContent
    \/ AddAttachment(Attachments, MaxAttachments)
    \/ RemoveAttachment
    \/ UpdateMetadata(MetaKeys, MetaValues)
    \/ Reset

\* the first render with the default prop initialValue = ''
InitDefault == Init /\ initialValue = ""

SpecStore == InitDefault /\ [][NextStore]_vars

\* Re-entrant submit: up to MaxOverlap calls of the handler in flight at once.
NextOverlap ==
    \/ UpdateContent
    \/ AddAttachment(SubmitFiles, MaxSubmitAttachments)
    \/ Reset
    \/ Effect
    \/ SubmitPlaceholder
    \/ Submit({NoExtra}, MaxOverlap)
    \/ Settle

SpecOverlap == Init /\ [][NextOverlap]_vars

\* A provider that is given no onSubmit.
NextNoHandler ==
    \/ UpdateContent
    \/ AddAttachment(SubmitFiles, MaxSubmitAttachments)
    \/ RemoveAttachment
    \/ UpdateMetadata(SubmitKeys, SubmitValues)
    \/ Reset
    \/ Effect
    \/ SubmitPlaceholder
    \/ Submit(Extras, MaxPending)

SpecNoHandler == InitNoHandler /\ [][NextNoHandler]_vars

\* the calls that can be in flight under NextOverlap
RECURSIVE SeqsUpTo(_, _)
SeqsUpTo(S, n) ==
    IF n = 0 THEN {<<>>}
    ELSE LET shorter == SeqsUpTo(S, n - 1)
         IN  shorter \cup {Append(s, x) : s \in shorter, x \in S}

OverlapCalls ==
    {[pre |-> f, extra |-> NoExtra, invoked |-> <<f>>] :
        f \in [content : Contents,
               attachments : SeqsUpTo(SubmitFiles, MaxSubmitAttachments),
               metadata : {EmptyMetadata}]}

\* Every call of the handler settles, and wrappedSubmit then continues (the
\* continuation of an await is a job of the microtask queue, which always runs).
HandlersSettle ==
    \A call \in OverlapCalls :
        WF_vars(\E outcome \in Outcomes : SettleCall(call, outcome))

SpecLive == Init /\ [][NextOverlap]_vars /\ HandlersSettle

\* The provider is rendered again with other props, and components inside
\* and outside the providers call useComposer.
NextProvider ==
    \/ UpdateContent
    \/ Reset
    \/ Effect
    \/ SubmitPlaceholder
    \/ Submit({NoExtra}, MaxPending)
    \/ Settle
    \/ Rerender
    \/ UseComposer

SpecProvider == Init /\ [][NextProvider]_vars

----------------------------------------------------------------------------
(* The same calls made on the store provider and on the useState provider *)

\* A consumer makes the same call under both providers:
\* h is the store after the call, state the local state after it
Mirror(h, state, call) ==
    /\ store' = h.state
    /\ writes' = h.writes
    /\ local' = [local EXCEPT !.state = state]
    /\ last' = [op |-> "both", call |-> call]
    /\ addLog' = [calls |-> <<>>, pure |-> FALSE]
    /\ UNCHANGED <<onSubmit, pending, storeRef, initialValue, sibling>>

BothUpdateContent ==
    \E value \in Contents :
        Mirror(updateContent(Handle, value),
               localUpdateContent(local.state, value), "updateContent")

BothAddAttachment ==
    /\ Len(store.attachments) < MaxSubmitAttachments
    /\ \E attachment \in SubmitFiles :
        Mirror(addAttachment(Handle, attachment),
               localAddAttachment(local.state, attachment), "addAttachment")

BothRemoveAttachment ==
    \E attachment \in SubmitFiles :
        Mirror(removeAttachment(Handle, attachment.id),
               localRemoveAttachment(local.state, attachment.id),
               "removeAttachment")

BothUpdateMetadata ==
    \E key \in SubmitKeys, value \in SubmitValues :
        Mirror(updateMetadata(Handle, key, value),
               localUpdateMetadata(local.state, key, value), "updateMetadata")

BothReset ==
    Mirror(reset(Handle), localReset(local.state), "reset")

BothSubmit ==
    /\ store.submit # Placeholder
    /\ BagCardinality(pending) < MaxPending
    /\ \E additionalData \in {NoExtra, ExtraChannel}, behaviour \in Behaviours :
        LET r == wrappedSubmitCall(Handle, additionalData, behaviour)
            l == localSubmitCall(local.state, local.state, additionalData,
                                 behaviour)
            call == [pre |-> Fields(store),
                     extra |-> additionalData,
                     invoked |-> r.invoked]
        IN  /\ store' = r.h.state
            /\ writes' = r.h.writes
            /\ pending' = IF r.promise = "pending"
                          THEN pending (+) SetToBag({call})
                          ELSE pending
            /\ local' = [state |-> l.state,
                         pending |-> IF l.promise = "pending"
                                     THEN local.pending (+) SetToBag({l.invoked})
                                     ELSE local.pending]
            /\ last' = [op |-> "both", call |-> "submit"]
    /\ addLog' = [calls |-> <<>>, pure |-> FALSE]
    /\ UNCHANGED <<onSubmit, storeRef, initialValue, sibling>>

\* one event handler of a consumer calls updateContent(value) and then
\* submit(), under both providers
BothUpdateThenSubmit ==
    /\ store.submit # Placeholder
    /\ BagCardinality(pending) < MaxPending
    /\ \E value \in Contents, behaviour \in Behaviours :
        LET h1 == updateContent(Handle, value)
            r == wrappedSubmitCall(h1, NoExtra, behaviour)
            l == localSubmitCall(localUpdateContent(local.state, value),
                                 local.state, NoExtra, behaviour)
            call == [pre |-> Fields(h1.state),
                     extra |-> NoExtra,
                     invoked |-> r.invoked]
        IN  /\ store' = r.h.state
            /\ writes' = r.h.writes
            /\ pending' = IF r.promise = "pending"
                          THEN pending (+) SetToBag({call})
                          ELSE pending
            /\ local' = [state |-> l.state,
                         pending |-> IF l.promise = "pending"
                                     THEN local.pending (+) SetToBag({l.invoked})
                                     ELSE local.pending]
            /\ last' = [op |-> "both",
                        call |-> "updateThenSubmit",
                        arg |-> value,
                        invoked |-> r.invoked,
                        localInvoked |-> l.invoked]
    /\ addLog' = [calls |-> <<>>, pure |-> FALSE]
    /\ UNCHANGED <<onSubmit, storeRef, initialValue, sibling>>

\* the handler settles the same way under both providers
BothSettle ==
    \E call \in BagToSet(pending), invoked \in BagToSet(local.pending),
       outcome \in Outcomes :
        LET r == wrappedSubmitResume(Handle, outcome)
        IN  /\ store' = r.h.state
            /\ writes' = r.h.writes
            /\ pending' = pending (-) SetToBag({call})
            /\ local' = [state |-> localSubmitResume(local.state, outcome),
                         pending |-> local.pending (-) SetToBag({invoked})]
            /\ last' = [op |-> "both", call |-> "settle"]
            /\ addLog' = [calls |-> <<>>, pure |-> FALSE]
            /\ UNCHANGED <<onSubmit, storeRef, initialValue, sibling>>

NextRealizations ==
    \/ Effect
    \/ BothUpdateContent
    \/ BothAddAttachment
    \/ BothRemoveAttachment
    \/ BothUpdateMetadata
    \/ BothReset
    \/ BothSubmit
    \/ BothSettle

SpecRealizations == Init /\ [][NextRealizations]_vars

\* the two providers, with the calls that decide what the handler is given:
\* writes before a submit(), writes in the same event handler as the
\* submit(), and writes while the handler is in flight
NextPayload ==
    \/ Effect
    \/ BothUpdateContent
    \/ BothAddAttachment
    \/ BothSubmit
    \/ BothUpdateThenSubmit
    \/ BothSettle

SpecPayload == Init /\ [][NextPayload]_vars

----------------------------------------------------------------------------
(* The components: ComposerInput, ComposerButton, ComposerAttachments and the
   buttons of ComposerExamples, rendered under the useState provider.  view
   is what a component destructures from useComposer(): the snapshot of the
   latest render. *)

\* what a user can type: Contents, and texts with white space around them
TypedContents == Contents \cup {" ", " hi "}

\* String.prototype.trim on the texts of TypedContents
Trim(text) ==
    CASE text = " " -> ""
      [] text = " hi " -> "hi"
      [] OTHER -> text

\* <textarea disabled={isSubmitting}>
inputDisabled(view) == view.isSubmitting

\* a ComposerButton that looks at its own disabled prop only
composerButtonDisabledByProp(disabled, view) == disabled

\* <button disabled={disabled || isSubmitting}> of ComposerButton
composerButtonDisabled(disabled, view) == disabled \/ view.isSubmitting

\* SubmitButton and SaveEditButton: <ComposerButton disabled={!content.trim()}>
submitButtonDisabled(view) ==
    composerButtonDisabled(Trim(view.content) = "", view)

\* the remove button of an attachment is a plain <button> with no disabled
\* attribute; there is one per attachment of the list
removeButtonDisabled(view) == FALSE

\* the user types into ComposerInput
TypeInput ==
    /\ ~inputDisabled(local.state)
    /\ \E value \in TypedContents :
        /\ local' = [local EXCEPT !.state = localUpdateContent(@, value)]
        /\ last' = [op |-> "type", busy |-> local.state.isSubmitting]
    /\ writes' = <<>>
    /\ UNCHANGED <<store, onSubmit, pending, addLog, storeRef, initialValue, sibling>>

\* the user clicks ChannelAttachButton, a ComposerButton without disabled prop
ClickAttach ==
    /\ ~composerButtonDisabled(FALSE, local.state)
    /\ Len(local.state.attachments) < MaxAttachments
    /\ \E attachment \in {File1, File2} :
        /\ local' = [local EXCEPT !.state = localAddAttachment(@, attachment)]
        /\ last' = [op |-> "attach", busy |-> local.state.isSubmitting]
    /\ writes' = <<>>
    /\ UNCHANGED <<store, onSubmit, pending, addLog, storeRef, initialValue, sibling>>

\* the user clicks the remove button of an attachment of the list
ClickRemove ==
    /\ ~removeButtonDisabled(local.state)
    /\ \E i \in 1..Len(local.state.attachments) :
        local' = [local EXCEPT !.state =
                    localRemoveAttachment(@, local.state.attachments[i].id)]
    /\ last' = [op |-> "remove", busy |-> local.state.isSubmitting]
    /\ writes' = <<>>
    /\ UNCHANGED <<store, onSubmit, pending, addLog, storeRef, initialValue, sibling>>

\* the user clicks CancelButton: <ComposerButton onClick={reset}>
ClickCancel ==
    /\ ~composerButtonDisabled(FALSE, local.state)
    /\ local' = [local EXCEPT !.state = localReset(@)]
    /\ last' = [op |-> "cancel", busy |-> local.state.isSubmitting]
    /\ writes' = <<>>
    /\ UNCHANGED <<store, onSubmit, pending, addLog, storeRef, initialValue, sibling>>

\* the user clicks SubmitButton or SaveEditButton: onClick={() => submit()}
ClickSubmit ==
    /\ ~submitButtonDisabled(local.state)
    /\ \E behaviour \in Behaviours :
        LET l == localSubmitCall(local.state, local.state, NoExtra, behaviour)
        IN  /\ local' = [state |-> l.state,
                         pending |-> IF l.promise = "pending"
                                     THEN local.pending (+) SetToBag({l.invoked})
                                     ELSE local.pending]
            /\ last' = [op |-> "click",
                        busy |-> local.state.isSubmitting,
                        inFlight |-> BagCardinality(local.pending),
                        invoked |-> l.invoked]
    /\ writes' = <<>>
    /\ UNCHANGED <<store, onSubmit, pending, addLog, storeRef, initialValue, sibling>>

\* the handler called by the useState provider settles and its submit
\* continues
LocalSettle ==
    /\ \E invoked \in BagToSet(local.pending), outcome \in Outcomes :
        /\ local' = [state |-> localSubmitResume(local.state, outcome),
                     pending |-> local.pending (-) SetToBag({invoked})]
        /\ last' = [op |-> "settled", busy |-> local.state.isSubmitting]
    /\ writes' = <<>>
    /\ UNCHANGED <<store, onSubmit, pending, addLog, storeRef, initialValue, sibling>>

NextComponents ==
    \/ TypeInput
    \/ ClickAttach
    \/ ClickRemove
    \/ ClickCancel
    \/ ClickSubmit
    \/ LocalSettle

SpecComponents == Init /\ [][NextComponents]_vars

----------------------------------------------------------------------------
(* Two providers in one tree *)

\* the onSubmit prop of the second provider
ReplyHandler == "onReplyToThread"

\* the store state and the suspended submit calls of a provider
Session(provider) ==
    IF provider = Main
    THEN [state |-> store, pending |-> pending]
    ELSE [state |-> sibling.state, pending |-> sibling.pending]

Sessions == [p \in Providers |-> Session(p)]

\* the provider whose store a consumer rendered at path gets from
\* useComposer()
Target(path) == useComposer(useContext(path, ContextValues)).value.provider

\* the store that a consumer rendered at path gets from useComposer()
TargetHandle(path) == [state |-> Session(Target(path)).state, writes |-> <<>>]

\* A consumer rendered at path calls useComposer() and the store action named
\* call on the store it got; h is that store after the call.
Perform(path, h, call) ==
    /\ ~useComposer(useContext(path, ContextValues)).threw
    /\ LET target == Target(path)
       IN  /\ IF target = Main
              THEN store' = h.state /\ sibling' = sibling
              ELSE store' = store /\ sibling' = [sibling EXCEPT !.state = h.state]
           /\ writes' = h.writes
           /\ last' = [op |-> "consumer",
                       call |-> call,
                       path |-> path,
                       before |-> Sessions,
                       sees |-> h.state]
    /\ UNCHANGED <<onSubmit, pending, addLog, storeRef, initialValue, local>>

ConsumerUpdateContent ==
    \E path \in Paths, value \in Contents :
        Perform(path, updateContent(TargetHandle(path), value), "updateContent")

ConsumerAddAttachment ==
    \E path \in Paths, attachment \in SubmitFiles :
        /\ path # <<>>
        /\ Len(TargetHandle(path).state.attachments) < MaxSubmitAttachments
        /\ Perform(path, addAttachment(TargetHandle(path), attachment),
                   "addAttachment")

ConsumerRemoveAttachment ==
    \E path \in Paths, attachment \in SubmitFiles :
        Perform(path, removeAttachment(TargetHandle(path), attachment.id),
                "removeAttachment")

ConsumerUpdateMetadata ==
    \E path \in Paths, key \in SubmitKeys, value \in SubmitValues :
        Perform(path, updateMetadata(TargetHandle(path), key, value),
                "updateMetadata")

ConsumerReset ==
    \E path \in Paths : Perform(path, reset(TargetHandle(path)), "reset")

\* the effect of the second provider binds its wrappedSubmit
SiblingEffect ==
    /\ sibling.state.submit # ReplyHandler
    /\ LET h == setState([state |-> sibling.state, writes |-> <<>>],
                         [submit |-> ReplyHandler])
       IN  /\ sibling' = [sibling EXCEPT !.state = h.state]
           /\ writes' = h.writes
    /\ last' = [op |-> "effect"]
    /\ UNCHANGED <<store, onSubmit, pending, addLog, storeRef, initialValue, local>>

\* A consumer rendered at path calls the submit of the store it got, which
\* is the wrappedSubmit of that store's provider.
ConsumerSubmit ==
    \E path \in Paths, behaviour \in Behaviours :
        /\ ~useComposer(useContext(path, ContextValues)).threw
        /\ LET target == Target(path)
               session == Session(target)
               r == wrappedSubmitCall([state |-> session.state, writes |-> <<>>],
                                      NoExtra, behaviour)
               calls == IF r.promise = "pending"
                        THEN session.pending (+) SetToBag({[provider |-> target]})
                        ELSE session.pending
           IN  /\ session.state.submit # Placeholder
               /\ BagCardinality(session.pending) < MaxPending
               /\ IF target = Main
                  THEN /\ store' = r.h.state
                       /\ pending' = calls
                       /\ sibling' = sibling
                  ELSE /\ sibling' = [sibling EXCEPT !.state = r.h.state,
                                                     !.pending = calls]
                       /\ UNCHANGED <<store, pending>>
               /\ writes' = r.h.writes
               /\ last' = [op |-> "consumer",
                           call |-> "submit",
                           path |-> path,
                           before |-> Sessions,
                           sees |-> r.h.state]
        /\ UNCHANGED <<onSubmit, addLog, storeRef, initialValue, local>>

\* the handler of one provider settles and its wrappedSubmit continues, on
\* the store that its closure holds
Continue ==
    \E provider \in Providers, outcome \in Outcomes :
        LET session == Session(provider)
            call == [provider |-> provider]
            r == wrappedSubmitResume([state |-> session.state, writes |-> <<>>],
                                     outcome)
        IN  /\ BagIn(call, session.pending)
            /\ IF provider = Main
               THEN /\ store' = r.h.state
                    /\ pending' = pending (-) SetToBag({call})
                    /\ sibling' = sibling
               ELSE /\ sibling' = [sibling EXCEPT
                                       !.state = r.h.state,
                                       !.pending = @ (-) SetToBag({call})]
                    /\ UNCHANGED <<store, pending>>
            /\ writes' = r.h.writes
            /\ last' = [op |-> "continue",
                        provider |-> provider,
                        before |-> Sessions]
            /\ UNCHANGED <<onSubmit, addLog, storeRef, initialValue, local>>

NextSessions ==
    \/ Effect
    \/ SiblingEffect
    \/ ConsumerUpdateContent
    \/ ConsumerAddAttachment
    \/ ConsumerRemoveAttachment
    \/ ConsumerUpdateMetadata
    \/ ConsumerReset
    \/ ConsumerSubmit
    \/ Continue

SpecSessions == InitDefault /\ [][NextSessions]_vars

----------------------------------------------------------------------------
(* Claims *)

\* the last segment was a submit whose handler failed: it threw inside the
\* call, or its promise rejected
Failed ==
    \/ last.op = "submit" /\ last.outcome = "threw"
    \/ last.op = "settle" /\ last.outcome = "rejected"

\* C1: when submit() (no additionalData) was called with content c,
\* attachments A and metadata M and the handler resolved, then right after
\* the submit settles content is '', attachments and metadata are empty,
\* isSubmitting is false, and the handler was invoked exactly once, with
\* {content: c, attachments: A, metadata: M}.
C1_SuccessfulSubmit ==
    (last.op = "settle" /\ last.outcome = "resolved" /\ last.call.extra = NoExtra)
        => /\ store.content = ""
           /\ store.attachments = <<>>
           /\ store.metadata = EmptyMetadata
           /\ store.isSubmitting = FALSE
           /\ last.call.invoked = <<last.call.pre>>

C1_Witness ==
    /\ last.op = "settle" /\ last.outcome = "resolved"
    /\ last.call.extra = NoExtra
    /\ last.call.pre.content = "hi"
    /\ last.call.pre.attachments = <<File1>>
    /\ last.call.pre.metadata = [threadId |-> "t1"]

\* C2 as stated: after a failed submit settles, content, attachments and
\* metadata equal their values before submit was called, and isSubmitting
\* is false.
C2_Original ==
    Failed => /\ Fields(store) = last.call.pre
              /\ store.isSubmitting = FALSE

\* C2 amended: a failed submit changes none of content, attachments and
\* metadata: right after it settles they have the values they had right
\* before the failure was handled (changes made by other calls while the
\* handler was in flight are kept), and isSubmitting is false.
C2_FailedSubmitKeepsState ==
    [][Failed' => /\ Fields(store') = Fields(store)
                  /\ store'.isSubmitting = FALSE]_vars

\* a submit fails after the content, attachments and metadata were changed
\* while its handler was in flight
C2_Witness ==
    /\ last.op = "settle" /\ last.outcome = "rejected"
    /\ last.call.pre.content = "hi"
    /\ store.content = ""
    /\ store.attachments = <<File1>>
    /\ store.isSubmitting = FALSE

\* C3: whether the handler throws inside the call or its promise rejects,
\* the promise that submit returned is fulfilled, never rejected, and the
\* store is left with its five fields and isSubmitting false (it has no
\* error state).
C3_FailureNotSurfaced ==
    /\ last.op \in {"submit", "settle"} => last.promise # "rejected"
    /\ Failed => /\ last.promise = "fulfilled"
                 /\ store.isSubmitting = FALSE
                 /\ DOMAIN store = DOMAIN createComposerStore("")

C3_Witness ==
    /\ last.op = "settle" /\ last.outcome = "rejected"
    /\ last.promise = "fulfilled"

\* C4: submit(extra) invokes the handler once, with an object that has the
\* keys content, attachments, metadata and the keys of extra; every key of
\* extra has extra's value, and every other key has the store's value at the
\* call.  submit({channel: 'general'}) on content 'hi' with no attachments
\* and no metadata passes {content: 'hi', attachments: [], metadata: {},
\* channel: 'general'}.
C4_PayloadMergesExtra ==
    (last.op = "submit" /\ last.outcome # "placeholder")
        => /\ Len(last.invoked) = 1
           /\ LET payload == last.invoked[1]
                  extra == last.call.extra
                  snapshot == last.call.pre
              IN  /\ DOMAIN payload = DOMAIN snapshot \cup DOMAIN extra
                  /\ \A k \in DOMAIN extra : payload[k] = extra[k]
                  /\ \A k \in DOMAIN snapshot \ DOMAIN extra :
                        payload[k] = snapshot[k]
                  /\ (extra = ExtraChannel /\ snapshot.content = "hi"
                        /\ snapshot.attachments = <<>>
                        /\ snapshot.metadata = EmptyMetadata)
                     => payload = [content |-> "hi", attachments |-> <<>>,
                                   metadata |-> EmptyMetadata,
                                   channel |-> "general"]

C4_Witness ==
    /\ last.op = "submit" /\ last.outcome = "awaiting"
    /\ last.call.extra = ExtraChannel
    /\ last.call.pre.content = "hi"
    /\ last.call.pre.attachments = <<>>
    /\ last.call.pre.metadata = EmptyMetadata
    /\ last.invoked[1].channel = "general"

\* C5: isSubmitting is true only while a call of the handler is in flight
\* (the handler was invoked and wrappedSubmit has not continued after its
\* await); with no call in flight - before any submit, after a success,
\* after a failure - isSubmitting is false.
C5_SubmittingOnlyInFlight ==
    store.isSubmitting => pending # EmptyBag

C5_Witness ==
    /\ store.isSubmitting
    /\ BagCardinality(pending) = 2

\* C6: every submit whose handler resolves or rejects is followed by a state
\* in which that submit has settled and isSubmitting is false, on the
\* success path and on the failure path.
C6_SubmittingEventuallyFalse ==
    \A call \in OverlapCalls :
        BagIn(call, pending)
            ~> (last.op = "settle" /\ last.call = call /\ ~store.isSubmitting)

C6_Witness ==
    /\ last.op = "settle" /\ last.outcome = "rejected"
    /\ last.call \in OverlapCalls
    /\ last.call.pre.content = "hi"
    /\ ~store.isSubmitting
    /\ pending = EmptyBag

\* the partial state that reset() passes to set()
ResetWrite == [content |-> "", attachments |-> <<>>, metadata |-> EmptyMetadata]

\* C7: the last state change of every submit is isSubmitting := false, on
\* success and on failure, and no earlier change of that segment clears the
\* flag; on success the reset of content, attachments and metadata is a
\* change strictly before it.
C7_FlagClearedLast ==
    (last.op = "settle" \/ (last.op = "submit" /\ last.outcome = "threw"))
        => /\ Len(writes) >= 1
           /\ writes[Len(writes)] = [isSubmitting |-> FALSE]
           /\ \A i \in 1..(Len(writes) - 1) : writes[i] # [isSubmitting |-> FALSE]
           /\ (last.op = "settle" /\ last.outcome = "resolved")
                => \E i \in 1..(Len(writes) - 1) : writes[i] = ResetWrite

C7_Witness ==
    /\ last.op = "settle" /\ last.outcome = "resolved"
    /\ last.call.pre.content = "hi"
    /\ writes = <<ResetWrite, [isSubmitting |-> FALSE]>>

\* C8: submit() called while isSubmitting is already true invokes the
\* handler again (the container has no guard), so that two calls of the
\* handler are in flight at once.
C8_ReentrantSubmitInvokesHandler ==
    (last.op = "submit" /\ last.outcome # "placeholder" /\ last.busy)
        => /\ Len(last.invoked) = 1
           /\ last.outcome = "awaiting" => BagCardinality(pending) >= 2

C8_Witness ==
    /\ last.op = "submit" /\ last.outcome = "awaiting"
    /\ last.busy
    /\ BagCardinality(pending) = 2
    /\ store.isSubmitting

\* the ids of the entries of s are pairwise distinct
DistinctIds(s) ==
    \A i, j \in 1..Len(s) : s[i].id = s[j].id => i = j

\* C9: after addAttachment calls with pairwise distinct ids, starting from an
\* empty list, the list is as long as the number of calls and holds the
\* items in call order.
C9_AddsInCallOrder ==
    (addLog.pure /\ DistinctIds(addLog.calls))
        => /\ Len(store.attachments) = Len(addLog.calls)
           /\ \A i \in 1..Len(addLog.calls) :
                store.attachments[i] = addLog.calls[i]

C9_Witness ==
    /\ addLog.pure
    /\ Len(addLog.calls) = 3
    /\ DistinctIds(addLog.calls)
    /\ store.attachments = <<File2, File1b, File3>>

\* C10 as stated: removeAttachment(id) removes at most one entry, the first
\* whose id is id, and keeps every other entry in its original order.
C10_Original ==
    last.op = "removeAttachment"
        => store.attachments = WithoutFirst(last.before, last.arg)

\* C10 amended: removeAttachment(id) removes every entry whose id is id (at
\* most one when the ids are unique); every other entry stays in the list
\* in its original relative order.
C10_RemovesEveryMatch ==
    last.op = "removeAttachment"
        => store.attachments = WithoutId(last.before, last.arg)

\* two entries with the removed id are gone, the third is kept
C10_Witness ==
    /\ last.op = "removeAttachment"
    /\ last.arg = 1
    /\ last.before = <<File1, File2, File1b>>
    /\ store.attachments = <<File2>>

\* no entry of s has the id
Absent(s, id) == \A i \in 1..Len(s) : s[i].id # id

\* C11: removeAttachment(id) with an id that no entry has leaves the list as
\* it was (same entries, same order), and the same call once more leaves it
\* unchanged again.
C11_RemoveAbsentIsNoOp ==
    (last.op = "removeAttachment" /\ Absent(last.before, last.arg))
        => /\ store.attachments = last.before
           /\ removeAttachment(Handle, last.arg).state.attachments = last.before

C11_Witness ==
    /\ last.op = "removeAttachment"
    /\ last.arg = 3
    /\ last.before = <<File1, File2, File1b>>
    /\ store.attachments = <<File1, File2, File1b>>

\* C12: addAttachment does not deduplicate: it appends its argument also
\* when an entry with the same id is already in the list, so lists with two
\* entries of one id are reachable.
C12_AddAppendsDuplicates ==
    last.op = "addAttachment"
        => store.attachments = Append(last.before, last.arg)

C12_Witness ==
    /\ last.op = "addAttachment"
    /\ ~Absent(last.before, last.arg.id)
    /\ Len(store.attachments) = Len(last.before) + 1
    /\ ~DistinctIds(store.attachments)

\* C13: after updateMetadata(k, v) followed by updateMetadata(k, v2),
\* metadata[k] is v2, and every other key has the value it had before the
\* two calls; no other key appeared.
C13_MetadataOverwrite ==
    (last.op = "updateMetadata" /\ last.prev.op = "updateMetadata"
        /\ last.prev.arg[1] = last.arg[1])
        => LET k == last.arg[1]
               old == last.prev.before
           IN  /\ DOMAIN store.metadata = DOMAIN old \cup {k}
               /\ store.metadata[k] = last.arg[2]
               /\ \A other \in DOMAIN old \ {k} : store.metadata[other] = old[other]

C13_Witness ==
    /\ last.op = "updateMetadata" /\ last.prev.op = "updateMetadata"
    /\ last.prev.arg = <<"threadId", "t1">>
    /\ last.arg = <<"threadId", "t2">>
    /\ last.prev.before = [mode |-> "t2"]
    /\ store.metadata = [threadId |-> "t2", mode |-> "t2"]

\* C14: after reset(), whatever the state before, content is '', attachments
\* is the empty list and metadata the empty mapping, and isSubmitting has
\* the value it had before the call, also while a submit is in flight.
C14_ResetKeepsFlag ==
    last.op = "reset"
        => /\ store.content = ""
           /\ store.attachments = <<>>
           /\ store.metadata = EmptyMetadata
           /\ store.isSubmitting = last.busy
           /\ writes = <<ResetWrite>>

C14_Witness ==
    /\ last.op = "reset"
    /\ last.fields = [content |-> "hi", attachments |-> <<File1>>,
                      metadata |-> [threadId |-> "t1"]]
    /\ last.busy
    /\ store.isSubmitting
    /\ pending # EmptyBag

\* C15: useComposer() called outside every ComposerProvider throws the error
\* 'useComposer must be used within ComposerProvider'; called inside a
\* provider, at any depth, it does not throw.
C15_UseComposerThrowsOutside ==
    last.op = "useComposer"
        => IF last.path = <<>>
           THEN /\ last.result.threw
                /\ last.result.message = ErrorOutsideProvider
           ELSE ~last.result.threw

C15_Witness ==
    /\ last.op = "useComposer"
    /\ last.path = <<>>
    /\ last.result.threw

\* C16: a ComposerProvider creates exactly one store, on its first render,
\* and every later render, whether it changes onSubmit, initialValue or both,
\* hands that same instance to the consumers.
C16_OneStoreInstance ==
    /\ storeRef.created = 1
    /\ storeRef.current = 1
    /\ last.op = "render" => last.value = StoreContext(Main, 1)
    /\ (last.op = "useComposer" /\ last.path # <<>>
            /\ last.path[Len(last.path)] = Main)
        => last.result.value = StoreContext(Main, 1)

C16_Witness ==
    /\ last.op = "render"
    /\ last.was.onSubmit # onSubmit
    /\ last.was.initialValue # initialValue
    /\ store.content # initialValue

\* C18: once the provider's onSubmit prop has changed from h1 to h2, every
\* submit() that reaches the handler invokes h2, the handler of the latest
\* render, and never h1.
C18_Original ==
    (last.op = "submit" /\ last.outcome # "placeholder")
        => last.handler = onSubmit

\* the provider nearest to a consumer rendered at path, and the other one
Nearest(path) == path[Len(path)]
OtherProvider(provider) == IF provider = Main THEN Reply ELSE Main

\* C17: with two providers mounted, side by side or one inside the other,
\* whatever a consumer does (updateContent, addAttachment, removeAttachment,
\* updateMetadata, reset, submit and its continuation) leaves the state and
\* the calls in flight of the provider that is not its nearest one unchanged,
\* and the state the consumer reads is that of its nearest provider.
C17_SessionsNeverMerge ==
    /\ last.op = "consumer"
        => /\ Session(OtherProvider(Nearest(last.path)))
                = last.before[OtherProvider(Nearest(last.path))]
           /\ last.sees = Session(Nearest(last.path)).state
    /\ last.op = "continue"
        => Session(OtherProvider(last.provider))
            = last.before[OtherProvider(last.provider)]

C17_Witness ==
    /\ last.op = "consumer"
    /\ last.path = <<Main, Reply>>
    /\ last.call = "updateContent"
    /\ sibling.state.content = "hi"
    /\ store.content = ""
    /\ store.attachments # <<>>
    /\ last.before[Reply].state.content = ""

\* C19: after the same calls of updateContent, addAttachment,
\* removeAttachment, updateMetadata, reset and submit, what a consumer reads
\* from useComposer() under the store provider equals what it reads under
\* the useState provider: content, attachments, metadata, isSubmitting and
\* each of the six actions.
C19_Original ==
    \A key \in ConsumerKeys :
        Read(Properties(useComposer(ContextValues[Main]).value), key)
            = Read(Properties(useComposer(LocalContext(local.state)).value), key)

\* C20: every mutation of the store renders again a consumer that selects
\* the whole state, and a mutation of metadata alone does not render again a
\* consumer that selects content only.
C20_Original ==
    [][/\ store' # store
          => contextChanged(ContextValues[Main], ContextValues[Main]')
       /\ (store'.metadata # store.metadata /\ store'.content = store.content)
          => ~contextChanged(ContextValues[Main], ContextValues[Main]')]_vars

\* C21: submit performs no validation: once the effect has bound the
\* handler, every submit() call invokes the provider's onSubmit exactly once,
\* whatever the content, the empty content included.
C21_SubmitNeverValidates ==
    (last.op = "submit" /\ last.outcome # "placeholder")
        => /\ Len(last.invoked) = 1
           /\ last.handler = onSubmit
           /\ last.call.extra = NoExtra
                => last.invoked[1].content = last.call.pre.content

C21_Witness ==
    /\ last.op = "submit" /\ last.outcome = "awaiting"
    /\ last.call.extra = NoExtra
    /\ last.call.pre = [content |-> "", attachments |-> <<>>,
                        metadata |-> EmptyMetadata]
    /\ last.invoked = <<last.call.pre>>
    /\ last.handler = FirstHandler

\* C23: content starts as the initialValue of the first render, and after
\* that it changes only in updateContent, reset or the continuation of a
\* submit whose handler resolved; a render with another initialValue leaves
\* it as it is.
C23_InitialValueSeedsOnce ==
    /\ store.content = initialValue
    /\ [][/\ last'.op = "render" => store'.content = store.content
          /\ store'.content # store.content
                => \/ last'.op = "updateContent"
                   \/ last'.op = "reset"
                   \/ last'.op = "settle" /\ last'.outcome = "resolved"]_vars

C23_Witness ==
    /\ last.op = "render"
    /\ last.was.initialValue = "hi"
    /\ initialValue = ""
    /\ store.content = "hi"
    /\ store.submit = FirstHandler

\* C25: updateContent changes content only, addAttachment and
\* removeAttachment change attachments only, updateMetadata changes metadata
\* only: every other state field, isSubmitting and the bound submit are the
\* same after the call as before it.
C25_ActionsChangeOwnFieldOnly ==
    [][/\ last'.op = "updateContent"
            => store' = [store EXCEPT !.content = last'.arg]
       /\ (last'.op = "addAttachment" \/ last'.op = "removeAttachment")
            => store' = [store EXCEPT !.attachments = store'.attachments]
       /\ last'.op = "updateMetadata"
            => store' = [store EXCEPT !.metadata = store'.metadata]]_vars

C25_Witness ==
    /\ last.op = "updateMetadata"
    /\ store.isSubmitting
    /\ store.content = "hi"
    /\ store.attachments = <<File1>>
    /\ store.submit = FirstHandler
    /\ pending # EmptyBag

\* C26: as long as a call of the handler is in flight isSubmitting is true,
\* also when two submits overlap: the end of one submit does not clear the
\* flag while the handler call of another is pending.
C26_Original ==
    pending # EmptyBag => store.isSubmitting

\* C27: when the handler resolves, what was written while it was in flight
\* is discarded: whichever updateContent, addAttachment, removeAttachment or
\* updateMetadata calls ran between the call of the handler and its
\* resolution, right after the submit settles content is '', attachments is
\* empty and metadata is empty.
C27_InFlightMutationsDiscarded ==
    (last.op = "settle" /\ last.outcome = "resolved" /\ last.mutated)
        => Fields(store) = ResetWrite

C27_Witness ==
    /\ last.op = "settle" /\ last.outcome = "resolved"
    /\ last.mutated
    /\ last.call.pre = [content |-> "", attachments |-> <<>>,
                        metadata |-> EmptyMetadata]
    /\ Fields(store) = ResetWrite

\* C28: from the creation of the store until the provider's effect has run,
\* the store's submit is the placeholder: a call of it invokes no handler
\* and writes nothing to the state; once the effect has run the placeholder
\* never comes back and every call of submit invokes the handler.
C28_PlaceholderUntilEffect ==
    /\ store.submit = Placeholder
    /\ [](/\ (last.op = "submit" /\ last.outcome = "placeholder")
                => /\ last.invoked = <<>>
                   /\ writes = <<>>
                   /\ pending = EmptyBag
                   /\ ~store.isSubmitting
          /\ (last.op = "submit" /\ last.outcome # "placeholder")
                => Len(last.invoked) = 1
          /\ last.op = "effect" => store.submit = onSubmit)
    /\ [][/\ store.submit = Placeholder
                => (store'.submit = Placeholder \/ last'.op = "effect")
          /\ store.submit # Placeholder => store'.submit # Placeholder]_vars

C28_Witness ==
    /\ last.op = "submit" /\ last.outcome = "placeholder"
    /\ store.submit = Placeholder
    /\ store.content = "hi"
    /\ store.attachments = <<File1>>

\* C29: under a provider mounted without onSubmit, submit() ends like a
\* failed submission: the promise it returns is fulfilled (no error reaches
\* the caller), content, attachments and metadata are what they were before
\* the call, and isSubmitting is false at the end.
C29_MissingHandlerFailsQuietly ==
    (last.op = "submit" /\ last.outcome # "placeholder")
        => /\ last.promise = "fulfilled"
           /\ Fields(store) = last.call.pre
           /\ ~store.isSubmitting
           /\ last.invoked = <<>>
           /\ pending = EmptyBag
           /\ writes = <<[isSubmitting |-> TRUE], [isSubmitting |-> FALSE]>>

C29_Witness ==
    /\ last.op = "submit" /\ last.outcome = "threw"
    /\ last.handler = NoHandler
    /\ store.content = "hi"
    /\ store.attachments = <<File1>>
    /\ store.metadata # EmptyMetadata

\* the payload of a call of updateContent(x) followed by submit() has the
\* content x and the attachments and metadata of the store; the payload of
\* every call in flight is still the one built from the state at its submit
StorePayloadIsStateAtCall ==
    /\ (last.op = "both" /\ last.call = "updateThenSubmit")
        => last.invoked = <<[content |-> last.arg,
                             attachments |-> store.attachments,
                             metadata |-> store.metadata]>>
    /\ \A call \in BagToSet(pending) :
            call.invoked = <<payloadOf(call.pre, call.extra)>>

C30_Original ==
    [][(local.state.isSubmitting /\ last'.op # "settled")
        => /\ local'.state.content = local.state.content
           /\ local'.state.attachments = local.state.attachments]_vars

====
